---- MODULE Spec2Model ----
(***************************************************************************)
(* Model of the restaurant dashboard:                                      *)
(*   src/app.py  - Streamlit script: load the CSV, filter, aggregate,      *)
(*                 chart, on two pages (main dashboard, detailed analysis) *)
(*   src/auth.py - credential check of the login guard                     *)
(* Every UI interaction reruns the page script from the top, so each       *)
(* action below is "set one widget, then run the whole page".              *)
(* Money is in whole reais, so int() of a profit is the profit itself.     *)
(* The date range of the main page is always a completed pair; the filter  *)
(* is run on every pair, also those with the start after the end.          *)
(***************************************************************************)
EXTENDS Integers, Sequences, FiniteSets, TLC

VARIABLES
    df,             \* the table returned by carregar_dados()
    pagina,         \* st.sidebar.radio of main()
    datas,          \* main page: date_input range  <<datas[0], datas[1]>>
    categorias,     \* main page: multiselect "Categorias"
    dias,           \* main page: multiselect "Dias da semana"
    data_inicio,    \* detailed page: date_input "Data inicial"
    data_fim,       \* detailed page: date_input "Data final"
    limite_lucro,   \* detailed page: slider "Filtrar por lucro minimo"
    df_filtrado,    \* the filtered view of the last script run
    metricas,       \* what the last script run displayed (page dependent)
    status,         \* "ok", or the exception that ended the last script run
    USERS,          \* auth.py: the credential table read from users.json
    sessao,         \* auth gate: "Anonymous" | "Authenticated"
    usuario_atual,  \* auth gate: the logged-in user id, or "nenhum"
    erro_login,     \* auth gate: the login form shows its error message
    rota,           \* auth gate: the route last served, "/" or "/dashboard"
    tentativas,     \* history: the forms <<username, password>> submitted since the last logout
    evento          \* history: the last request served, with its form

appVars  == <<df, pagina, datas, categorias, dias, data_inicio, data_fim,
              limite_lucro, df_filtrado, metricas, status>>
authVars == <<USERS, sessao, usuario_atual, erro_login, rota, tentativas, evento>>
vars     == <<df, pagina, datas, categorias, dias, data_inicio, data_fim,
              limite_lucro, df_filtrado, metricas, status,
              USERS, sessao, usuario_atual, erro_login, rota, tentativas, evento>>

----------------------------------------------------------------------------
(* Bounds and input domains of data/dados_ficticios.csv *)

MaxRows == 2        \* rows of the CSV

\* calendar days of the "data" column: day 1 is Monday 2024-01-01
Datas == { 1, 2 }

\* <<produto, categoria>> columns
Cardapio == { <<"Pizza", "Comida">>, <<"Suco", "Bebida">> }

\* <<quantidade, preco_unitario, custo_unitario>> columns:
\* nothing sold, a courtesy item (price 0), sold at a loss, sold at a profit
Vendas == { <<0, 3, 1>>, <<1, 0, 1>>, <<1, 1, 2>>, <<2, 3, 1>> }

LinhasCSV ==
    { [data |-> d, produto |-> c[1], categoria |-> c[2],
       quantidade |-> v[1], preco_unitario |-> v[2], custo_unitario |-> v[3]] :
      d \in Datas, c \in Cardapio, v \in Vendas }

ArquivosCSV == UNION { [1..n -> LinhasCSV] : n \in 1..MaxRows }

----------------------------------------------------------------------------
(* pandas float arithmetic: a value is a fraction, NaN, +inf or -inf *)

NaN    == [cls |-> "nan",  num |-> 0, den |-> 1]
PosInf == [cls |-> "inf",  num |-> 0, den |-> 1]
NegInf == [cls |-> "-inf", num |-> 0, den |-> 1]
Frac(n, d) == IF d < 0 THEN [cls |-> "num", num |-> -n, den |-> -d]
                       ELSE [cls |-> "num", num |-> n,  den |-> d]
Zero   == Frac(0, 1)

\* a / b on a numeric column: division by zero yields NaN or +-inf, it does not raise
Dividir(a, b) ==
    IF b # 0 THEN Frac(a, b)
    ELSE IF a = 0 THEN NaN
    ELSE IF a > 0 THEN PosInf
    ELSE NegInf

Vezes(x, k) == IF x.cls = "num" THEN Frac(x.num * k, x.den) ELSE x

\* x < y for two values, neither NaN
Menor(x, y) ==
    CASE x.cls = "-inf" -> y.cls # "-inf"
      [] x.cls = "inf"  -> FALSE
      [] OTHER          -> CASE y.cls = "-inf" -> FALSE
                             [] y.cls = "inf"  -> TRUE
                             [] OTHER          -> x.num * y.den < y.num * x.den

\* numeric equality of two values (NaN equals nothing)
Igual(x, y) ==
    /\ x.cls # "nan" /\ y.cls # "nan"
    /\ x.cls = y.cls
    /\ (x.cls = "num" => x.num * y.den = y.num * x.den)

----------------------------------------------------------------------------
(* carregar_dados *)

day_name(d) ==
    <<"Monday", "Tuesday", "Wednesday", "Thursday", "Friday", "Saturday", "Sunday">>[((d - 1) % 7) + 1]

month_name(d) == IF d <= 31 THEN "January" ELSE "February"

dias_portugues ==
    [ Monday |-> "Segunda", Tuesday |-> "Terça", Wednesday |-> "Quarta",
      Thursday |-> "Quinta", Friday |-> "Sexta", Saturday |-> "Sábado",
      Sunday |-> "Domingo" ]

\* one row of the frame: the CSV columns, the RangeIndex label, the derived columns
processar_linha(i, l) ==
    LET receita == l.quantidade * l.preco_unitario
        custo   == l.quantidade * l.custo_unitario
        lucro   == receita - custo
    IN  [ idx            |-> i - 1,
          data           |-> l.data,
          produto        |-> l.produto,
          categoria      |-> l.categoria,
          quantidade     |-> l.quantidade,
          preco_unitario |-> l.preco_unitario,
          custo_unitario |-> l.custo_unitario,
          receita        |-> receita,
          custo          |-> custo,
          lucro          |-> lucro,
          margem_lucro   |-> Vezes(Dividir(lucro, receita), 100),
          dia_semana     |-> dias_portugues[day_name(l.data)],
          mes            |-> month_name(l.data) ]

carregar_dados(csv) == [ i \in 1..Len(csv) |-> processar_linha(i, csv[i]) ]

----------------------------------------------------------------------------
(* Series helpers: column of a frame, unique, min, max, sum, mean *)

Coluna(tabela, c) == { tabela[i][c] : i \in 1..Len(tabela) }

MinDe(S) == CHOOSE x \in S : \A y \in S : x <= y
MaxDe(S) == CHOOSE x \in S : \A y \in S : x >= y

RECURSIVE SomaColuna(_, _)
SomaColuna(tabela, c) ==
    IF tabela = <<>> THEN 0
    ELSE tabela[1][c] + SomaColuna(Tail(tabela), c)

----------------------------------------------------------------------------
(* pagina_principal *)

\* criar_filtros: what each widget offers, and its default
data_min(tabela) == MinDe(Coluna(tabela, "data"))
data_max(tabela) == MaxDe(Coluna(tabela, "data"))
DatasSelecionaveis(tabela) == data_min(tabela)..data_max(tabela)
datas_padrao(tabela)      == <<data_min(tabela), data_max(tabela)>>
categorias_padrao(tabela) == Coluna(tabela, "categoria")
dias_padrao(tabela)       == Coluna(tabela, "dia_semana")

\* filtrar_dados with the end of the range excluded (< for <=)
filtrar_dados_fim_exclusivo(tabela, dts, cats, ds) ==
    LET por_data == SelectSeq(tabela, LAMBDA r : r.data >= dts[1] /\ r.data < dts[2])
        por_cat  == IF cats # {}
                    THEN SelectSeq(por_data, LAMBDA r : r.categoria \in cats)
                    ELSE por_data
    IN  IF ds # {}
        THEN SelectSeq(por_cat, LAMBDA r : r.dia_semana \in ds)
        ELSE por_cat

\* filtrar_dados returning its result from the second row on (.iloc[1:])
filtrar_dados_iloc(tabela, dts, cats, ds) ==
    LET por_data == SelectSeq(tabela, LAMBDA r : r.data >= dts[1] /\ r.data <= dts[2])
        por_cat  == IF cats # {}
                    THEN SelectSeq(por_data, LAMBDA r : r.categoria \in cats)
                    ELSE por_data
        por_dia  == IF ds # {}
                    THEN SelectSeq(por_cat, LAMBDA r : r.dia_semana \in ds)
                    ELSE por_cat
    IN  IF por_dia = <<>> THEN por_dia ELSE Tail(por_dia)

filtrar_dados(tabela, dts, cats, ds) ==
    LET por_data == SelectSeq(tabela, LAMBDA r : r.data >= dts[1] /\ r.data <= dts[2])
        por_cat  == IF cats # {}
                    THEN SelectSeq(por_data, LAMBDA r : r.categoria \in cats)
                    ELSE por_data
        por_dia  == IF ds # {}
                    THEN SelectSeq(por_cat, LAMBDA r : r.dia_semana \in ds)
                    ELSE por_cat
    IN  por_dia

\* mostrar_metricas summing the cost column as the revenue
mostrar_metricas_custo(tabela) ==
    LET receita_total == SomaColuna(tabela, "custo")
        lucro_total   == SomaColuna(tabela, "lucro")
        margem_media  == IF receita_total > 0
                         THEN Vezes(Dividir(lucro_total, receita_total), 100)
                         ELSE Zero
    IN  [ receita_total |-> receita_total,
          lucro_total   |-> lucro_total,
          margem_media  |-> margem_media ]

mostrar_metricas(tabela) ==
    LET receita_total == SomaColuna(tabela, "receita")
        lucro_total   == SomaColuna(tabela, "lucro")
        margem_media  == IF receita_total > 0
                         THEN Vezes(Dividir(lucro_total, receita_total), 100)
                         ELSE Zero
    IN  [ receita_total |-> receita_total,
          lucro_total   |-> lucro_total,
          margem_media  |-> margem_media ]

----------------------------------------------------------------------------
(* analise_detalhada *)

\* Series.mean() of a column of floats: NaN entries are skipped (skipna)
RECURSIVE SomaValores(_)
SomaValores(vs) ==
    IF vs = <<>> THEN Zero
    ELSE LET x == vs[1]
             r == SomaValores(Tail(vs))
         IN  Frac(x.num * r.den + r.num * x.den, x.den * r.den)

MediaValores(vs) ==
    LET validos == SelectSeq(vs, LAMBDA x : x.cls # "nan")
        finitos == SelectSeq(validos, LAMBDA x : x.cls = "num")
        tem(c)  == \E i \in 1..Len(validos) : validos[i].cls = c
        soma    == SomaValores(finitos)
    IN  IF validos = <<>> THEN NaN
        ELSE IF tem("inf") /\ tem("-inf") THEN NaN
        ELSE IF tem("inf") THEN PosInf
        ELSE IF tem("-inf") THEN NegInf
        ELSE Frac(soma.num, soma.den * Len(validos))

ValoresColuna(tabela, c) == [ i \in 1..Len(tabela) |-> tabela[i][c] ]
InteirosColuna(tabela, c) == [ i \in 1..Len(tabela) |-> Frac(tabela[i][c], 1) ]

\* groupby("produto")["margem_lucro"].mean(): one entry per product present
margem_por_produto(tabela) ==
    [ k \in Coluna(tabela, "produto") |->
        MediaValores(ValoresColuna(SelectSeq(tabela, LAMBDA r : r.produto = k),
                                   "margem_lucro")) ]

\* groupby("dia_semana")["lucro"].mean(): one entry per weekday present
lucro_por_dia(tabela) ==
    [ k \in Coluna(tabela, "dia_semana") |->
        MediaValores(InteirosColuna(SelectSeq(tabela, LAMBDA r : r.dia_semana = k),
                                    "lucro")) ]

\* groupby sorts its keys: the order of the labels of the grouped series
OrdemProdutos == <<"Pizza", "Suco">>
OrdemDias     == <<"Domingo", "Quarta", "Quinta", "Segunda", "Sexta", "Sábado", "Terça">>

Posicao(ordem, k) == CHOOSE i \in 1..Len(ordem) : ordem[i] = k

\* Series.idxmax() / idxmin(): the first label holding the extreme value.
\* The set of possible results: an empty series raises ValueError; a series
\* holding only NaN gives NaN or raises ValueError, depending on the pandas
\* release installed.
idx_extremo(serie, ordem, sentido) ==
    LET validos == { k \in DOMAIN serie : serie[k].cls # "nan" }
        melhor(x, y) == IF sentido = "max" THEN Menor(y, x) ELSE Menor(x, y)
        otimos  == { k \in validos : \A j \in validos : ~ melhor(serie[j], serie[k]) }
    IN  IF DOMAIN serie = {} THEN { "ValueError" }
        ELSE IF validos = {} THEN { "nan", "ValueError" }
        ELSE { CHOOSE k \in otimos :
                 \A j \in otimos : Posicao(ordem, k) <= Posicao(ordem, j) }

idxmax(serie, ordem) == idx_extremo(serie, ordem, "max")
idxmin(serie, ordem) == idx_extremo(serie, ordem, "min")

\* mostrar_filtros_avancados: the slider offers min_value..max_value, which
\* Streamlit widens so that it holds the initial value 0
lucro_max(tabela) == MaxDe(Coluna(tabela, "lucro"))
LimitesSelecionaveis(tabela) ==
    (IF lucro_max(tabela) < 0 THEN lucro_max(tabela) ELSE 0) ..
    (IF lucro_max(tabela) > 0 THEN lucro_max(tabela) ELSE 0)
limite_padrao == 0

\* the mask with the two dates put in order first
filtrar_detalhado_ordenado(tabela, inicio, fim, limite) ==
    SelectSeq(tabela, LAMBDA r : /\ r.data >= (IF inicio <= fim THEN inicio ELSE fim)
                                 /\ r.data <= (IF inicio <= fim THEN fim ELSE inicio)
                                 /\ r.lucro >= limite)

\* the mask applied at "Aplicar filtros"
filtrar_detalhado(tabela, inicio, fim, limite) ==
    SelectSeq(tabela, LAMBDA r : /\ r.data >= inicio
                                 /\ r.data <= fim
                                 /\ r.lucro >= limite)

\* recomendar_acoes: the set of possible results <<status, insights>> of the
\* three aggregates, evaluated in the order of the code
recomendar_acoes(tabela) ==
    LET margem_media == MediaValores(ValoresColuna(tabela, "margem_lucro"))
        alvos   == idxmax(margem_por_produto(tabela), OrdemProdutos)
        fracos  == idxmin(lucro_por_dia(tabela), OrdemDias)
        falha   == [ margem_media |-> margem_media,
                     produto_alvo |-> "indefinido",
                     dia_fraco    |-> "indefinido" ]
    IN  UNION { IF a = "ValueError"
                THEN { <<"ValueError", falha>> }
                ELSE { IF f = "ValueError"
                       THEN <<"ValueError", [falha EXCEPT !.produto_alvo = a]>>
                       ELSE <<"ok", [ margem_media |-> margem_media,
                                      produto_alvo |-> a,
                                      dia_fraco    |-> f ]>> : f \in fracos } :
                a \in alvos }

----------------------------------------------------------------------------
(* The script runs: main() dispatches on the page, each page loads, filters, *)
(* aggregates and charts from the full table                                 *)

\* the detailed page handing on a view whose undefined margins are filled (fillna(0))
visao_detalhada_fillna(tabela, inicio, fim, limite) ==
    LET v == filtrar_detalhado(tabela, inicio, fim, limite)
    IN  [ i \in 1..Len(v) |->
            IF v[i].margem_lucro.cls = "nan"
            THEN [v[i] EXCEPT !.margem_lucro = Zero]
            ELSE v[i] ]

\* the frame analise_detalhada hands to its three analyses
visao_detalhada(tabela, inicio, fim, limite) == filtrar_detalhado(tabela, inicio, fim, limite)

\* the main page filtering the view of the previous run instead of the table
pagina_principal_incremental(dts, cats, ds) ==
    /\ df_filtrado' = filtrar_dados(df_filtrado, dts, cats, ds)
    /\ metricas' = mostrar_metricas(df_filtrado')
    /\ status' = "ok"

pagina_principal(dts, cats, ds) ==
    /\ df_filtrado' = filtrar_dados(df, dts, cats, ds)
    /\ metricas' = mostrar_metricas(df_filtrado')
    /\ status' = "ok"

analise_detalhada(inicio, fim, limite) ==
    /\ df_filtrado' = visao_detalhada(df, inicio, fim, limite)
    /\ \E res \in recomendar_acoes(df_filtrado') :
          /\ status' = res[1]
          /\ metricas' = res[2]

\* a multiselect interaction adds one option, removes one, or clears them all
Selecoes(atual, opcoes) ==
    { atual \cup { o } : o \in opcoes } \cup { atual \ { o } : o \in opcoes } \cup { {} }

\* a date range picked on the main page
SelecionarPeriodo(d0, d1) ==
    /\ pagina = "Dashboard Principal"
    /\ datas' = <<d0, d1>>
    /\ pagina_principal(datas', categorias, dias)
    /\ UNCHANGED <<df, pagina, categorias, dias, data_inicio, data_fim, limite_lucro>>

SelecionarCategorias(cs) ==
    /\ pagina = "Dashboard Principal"
    /\ categorias' = cs
    /\ pagina_principal(datas, categorias', dias)
    /\ UNCHANGED <<df, pagina, datas, dias, data_inicio, data_fim, limite_lucro>>

SelecionarDias(ds) ==
    /\ pagina = "Dashboard Principal"
    /\ dias' = ds
    /\ pagina_principal(datas, categorias, dias')
    /\ UNCHANGED <<df, pagina, datas, categorias, data_inicio, data_fim, limite_lucro>>

SelecionarDataInicial(d) ==
    /\ pagina = "Análise Detalhada"
    /\ data_inicio' = d
    /\ analise_detalhada(data_inicio', data_fim, limite_lucro)
    /\ UNCHANGED <<df, pagina, datas, categorias, dias, data_fim, limite_lucro>>

SelecionarDataFinal(d) ==
    /\ pagina = "Análise Detalhada"
    /\ data_fim' = d
    /\ analise_detalhada(data_inicio, data_fim', limite_lucro)
    /\ UNCHANGED <<df, pagina, datas, categorias, dias, data_inicio, limite_lucro>>

AjustarLimiteLucro(l) ==
    /\ pagina = "Análise Detalhada"
    /\ limite_lucro' = l
    /\ analise_detalhada(data_inicio, data_fim, limite_lucro')
    /\ UNCHANGED <<df, pagina, datas, categorias, dias, data_inicio, data_fim>>

\* the radio of main(): the widgets of the page entered start at their defaults
AbrirPrincipal ==
    /\ pagina = "Análise Detalhada"
    /\ pagina' = "Dashboard Principal"
    /\ datas' = datas_padrao(df)
    /\ categorias' = categorias_padrao(df)
    /\ dias' = dias_padrao(df)
    /\ data_inicio' = data_min(df)
    /\ data_fim' = data_max(df)
    /\ limite_lucro' = limite_padrao
    /\ pagina_principal(datas', categorias', dias')
    /\ UNCHANGED df

AbrirDetalhada ==
    /\ pagina = "Dashboard Principal"
    /\ pagina' = "Análise Detalhada"
    /\ datas' = datas_padrao(df)
    /\ categorias' = categorias_padrao(df)
    /\ dias' = dias_padrao(df)
    /\ data_inicio' = data_min(df)
    /\ data_fim' = data_max(df)
    /\ limite_lucro' = limite_padrao
    /\ analise_detalhada(data_inicio', data_fim', limite_lucro')
    /\ UNCHANGED df

----------------------------------------------------------------------------
(* auth.py, and the login routes that use it *)

Usernames  == { "admin", "gerente" }
Passwords  == { "1234", "senha" }
Visitantes == Usernames \cup { "visitante" }

\* the possible contents of users.json: username -> {password}
TabelasUSERS ==
    UNION { [U -> [password : Passwords]] : U \in (SUBSET Usernames) \ { {} } }

get_user(username) == IF username \in DOMAIN USERS THEN username ELSE "None"

\* validate_login checking the username only
validate_login_so_usuario(username, password) ==
    username \in DOMAIN USERS

validate_login(username, password) ==
    username \in DOMAIN USERS /\ USERS[username].password = password

\* POST /: the form is checked; a match logs the user in and redirects
Login(username, password) ==
    /\ sessao = "Anonymous"
    /\ tentativas' = tentativas \cup { <<username, password>> }
    /\ evento' = [op |-> "login", form |-> <<username, password>>]
    /\ IF validate_login(username, password)
       THEN /\ sessao' = "Authenticated"
            /\ usuario_atual' = get_user(username)
            /\ erro_login' = FALSE
            /\ rota' = "/dashboard"
       ELSE /\ sessao' = "Anonymous"
            /\ usuario_atual' = "None"
            /\ erro_login' = TRUE
            /\ rota' = "/"
    /\ UNCHANGED USERS

\* GET /logout
Logout ==
    /\ sessao' = "Anonymous"
    /\ usuario_atual' = "None"
    /\ erro_login' = FALSE
    /\ rota' = "/"
    /\ tentativas' = {}
    /\ evento' = [op |-> "logout", form |-> <<>>]
    /\ UNCHANGED USERS

\* GET /dashboard/*: load_user decides whether the session still names a user
AcessarDashboard ==
    /\ IF sessao = "Authenticated" /\ get_user(usuario_atual) # "None"
       THEN rota' = "/dashboard"
       ELSE rota' = "/"
    /\ erro_login' = FALSE
    /\ evento' = [op |-> "dashboard", form |-> <<>>]
    /\ UNCHANGED <<USERS, sessao, usuario_atual, tentativas>>

----------------------------------------------------------------------------
(* Specifications *)

AuthParado ==
    /\ USERS = [ u \in { "admin" } |-> [password |-> "1234"] ]
    /\ sessao = "Anonymous"
    /\ usuario_atual = "None"
    /\ erro_login = FALSE
    /\ rota = "/"
    /\ tentativas = {}
    /\ evento = [op |-> "inicio", form |-> <<>>]

\* the first run of the script: the CSV is loaded, the main page is shown
\* with every widget at its default
Init ==
    /\ \E csv \in ArquivosCSV : df = carregar_dados(csv)
    /\ pagina = "Dashboard Principal"
    /\ datas = datas_padrao(df)
    /\ categorias = categorias_padrao(df)
    /\ dias = dias_padrao(df)
    /\ data_inicio = data_min(df)
    /\ data_fim = data_max(df)
    /\ limite_lucro = limite_padrao
    /\ df_filtrado = filtrar_dados(df, datas, categorias, dias)
    /\ metricas = mostrar_metricas(df_filtrado)
    /\ status = "ok"
    /\ AuthParado

Next ==
    \/ \E d0, d1 \in DatasSelecionaveis(df) : SelecionarPeriodo(d0, d1) /\ UNCHANGED authVars
    \/ \E cs \in Selecoes(categorias, categorias_padrao(df)) : SelecionarCategorias(cs) /\ UNCHANGED authVars
    \/ \E ds \in Selecoes(dias, dias_padrao(df)) : SelecionarDias(ds) /\ UNCHANGED authVars
    \/ \E d \in DatasSelecionaveis(df) : SelecionarDataInicial(d) /\ UNCHANGED authVars
    \/ \E d \in DatasSelecionaveis(df) : SelecionarDataFinal(d) /\ UNCHANGED authVars
    \/ \E l \in LimitesSelecionaveis(df) : AjustarLimiteLucro(l) /\ UNCHANGED authVars
    \/ AbrirPrincipal /\ UNCHANGED authVars
    \/ AbrirDetalhada /\ UNCHANGED authVars

Spec == Init /\ [][Next]_vars

\* the login guard alone, over every credential table
InitAuth ==
    /\ df = <<>>
    /\ pagina = "Dashboard Principal"
    /\ datas = <<1, 1>>
    /\ categorias = {}
    /\ dias = {}
    /\ data_inicio = 1
    /\ data_fim = 1
    /\ limite_lucro = limite_padrao
    /\ df_filtrado = <<>>
    /\ metricas = mostrar_metricas(<<>>)
    /\ status = "ok"
    /\ USERS \in TabelasUSERS
    /\ sessao = "Anonymous"
    /\ usuario_atual = "None"
    /\ erro_login = FALSE
    /\ rota = "/"
    /\ tentativas = {}
    /\ evento = [op |-> "inicio", form |-> <<>>]

NextAuth ==
    \/ \E u \in Visitantes, p \in Passwords : Login(u, p) /\ UNCHANGED appVars
    \/ Logout /\ UNCHANGED appVars
    \/ AcessarDashboard /\ UNCHANGED appVars

SpecAuth == InitAuth /\ [][NextAuth]_vars

----------------------------------------------------------------------------
(* Properties *)

NaPrincipal == pagina = "Dashboard Principal"
NaDetalhada == pagina = "Análise Detalhada"

NoPeriodo(r, inicio, fim) == inicio <= r.data /\ r.data <= fim

RECURSIVE SomaInteiros(_)
SomaInteiros(ns) == IF ns = <<>> THEN 0 ELSE ns[1] + SomaInteiros(Tail(ns))

\* C1: on the main page the view holds exactly the rows of the table whose
\* date is in [datas[0], datas[1]], whose category is selected and whose
\* weekday is selected, an empty category or weekday selection selecting all
C1_FiltroExato ==
    NaPrincipal =>
        df_filtrado = SelectSeq(df, LAMBDA r :
                          /\ NoPeriodo(r, datas[1], datas[2])
                          /\ (categorias = {} \/ r.categoria \in categorias)
                          /\ (dias = {} \/ r.dia_semana \in dias))

\* C1 witness: no category selected, one weekday selected, some rows kept and
\* some dropped
C1_Witness ==
    /\ NaPrincipal
    /\ categorias = {}
    /\ Cardinality(dias) = 1
    /\ datas[1] < datas[2]
    /\ df_filtrado # <<>>
    /\ Len(df_filtrado) < Len(df)

\* C2: a login attempt from Anonymous ends Authenticated exactly when the
\* submitted username is a key of USERS and the submitted password equals the
\* stored one, and otherwise ends Anonymous with the error shown; a logout ends
\* Anonymous; Authenticated is only held after a matching attempt made since
\* the last logout
Confere(form) ==
    \E u \in DOMAIN USERS : u = form[1] /\ USERS[u].password = form[2]

C2_AuthGate ==
    /\ sessao \in { "Anonymous", "Authenticated" }
    /\ evento.op = "login" =>
          IF Confere(evento.form)
          THEN sessao = "Authenticated" /\ usuario_atual = evento.form[1]
          ELSE sessao = "Anonymous" /\ erro_login
    /\ evento.op = "logout" => sessao = "Anonymous"
    /\ sessao = "Authenticated" => \E t \in tentativas : Confere(t)

\* C2 witness: logged in after a rejected attempt with a known username
C2_Witness ==
    /\ sessao = "Authenticated"
    /\ \E t \in tentativas : t[1] \in DOMAIN USERS /\ ~ Confere(t)

\* C3: on both pages every row of the view is the row of the table with the
\* same index label, all fields equal, and the view's labels strictly increase
\* (no row appears twice)
C3_VisaoSubconjunto ==
    /\ \A i \in 1..Len(df_filtrado) :
          /\ df_filtrado[i].idx + 1 \in 1..Len(df)
          /\ df_filtrado[i] = df[df_filtrado[i].idx + 1]
    /\ \A i, j \in 1..Len(df_filtrado) :
          i < j => df_filtrado[i].idx < df_filtrado[j].idx

\* C3 witness: the detailed page keeps a row with an undefined margin and
\* drops another row
C3_Witness ==
    /\ NaDetalhada
    /\ Len(df_filtrado) < Len(df)
    /\ \E i \in 1..Len(df_filtrado) : df_filtrado[i].margem_lucro.cls = "nan"

\* C4: filtering the main page's view again by the same selection returns
\* the same view
C4_Idempotente ==
    NaPrincipal =>
        filtrar_dados(df_filtrado, datas, categorias, dias) = df_filtrado

\* C4 witness: a non-empty view that the category selection cut from a larger table
C4_Witness ==
    /\ NaPrincipal
    /\ categorias # {}
    /\ Len(df_filtrado) >= 1
    /\ Len(df_filtrado) < Len(df)
    /\ \E i \in 1..Len(df) : df[i].categoria \notin categorias

\* C5: with the start date after the end date the view is empty, on the main
\* page whatever the categories and weekdays, on the detailed page whatever
\* the threshold
C5_PeriodoVazio ==
    /\ (NaPrincipal /\ datas[1] > datas[2]) => df_filtrado = <<>>
    /\ (NaDetalhada /\ data_inicio > data_fim) => df_filtrado = <<>>

\* C5 witness: the detailed page with the start date after the end date, over
\* a table that has rows on both dates
C5_Witness ==
    /\ NaDetalhada
    /\ data_inicio > data_fim
    /\ \E i, j \in 1..Len(df) : df[i].data = data_inicio /\ df[j].data = data_fim

\* C6: the total revenue shown is the sum over the view of quantity times unit
\* price, the total profit the sum of quantity times unit price minus quantity
\* times unit cost
C6_TotaisSomam ==
    NaPrincipal =>
        /\ metricas.receita_total =
              SomaInteiros([ i \in 1..Len(df_filtrado) |->
                  df_filtrado[i].quantidade * df_filtrado[i].preco_unitario ])
        /\ metricas.lucro_total =
              SomaInteiros([ i \in 1..Len(df_filtrado) |->
                  df_filtrado[i].quantidade * df_filtrado[i].preco_unitario
                  - df_filtrado[i].quantidade * df_filtrado[i].custo_unitario ])

\* C6 witness: a view of two rows with revenue and a loss-making row among them
C6_Witness ==
    /\ NaPrincipal
    /\ Len(df_filtrado) >= 2
    /\ metricas.receita_total > 0
    /\ \E i \in 1..Len(df_filtrado) : df_filtrado[i].lucro < 0

\* C7 (as claimed): no margin is computed by dividing by a revenue of zero -
\* every row's margin is a finite number - and the average margin shown is 0
\* when the total revenue is 0 and 100 * total profit / total revenue otherwise
C7_MargemGuardada ==
    /\ \A i \in 1..Len(df) : df[i].margem_lucro.cls = "num"
    /\ NaPrincipal =>
          IF metricas.receita_total = 0
          THEN metricas.margem_media = Zero
          ELSE Igual(metricas.margem_media,
                     Frac(100 * metricas.lucro_total, metricas.receita_total))

\* C8: after any interactions the view is the filter of the current page
\* applied to the whole table under the current widget values, and the table
\* is never changed
VisaoAtual ==
    IF NaPrincipal
    THEN filtrar_dados(df, datas, categorias, dias)
    ELSE filtrar_detalhado(df, data_inicio, data_fim, limite_lucro)

C8_DoZero == [](df_filtrado = VisaoAtual) /\ [][df' = df]_vars

\* C8 witness: back on the full date range on the main page with one category
\* deselected (a second or later interaction), rows of both dates in the view
C8_Witness ==
    /\ NaPrincipal
    /\ datas = datas_padrao(df)
    /\ datas[1] < datas[2]
    /\ categorias # categorias_padrao(df)
    /\ { df_filtrado[i].data : i \in 1..Len(df_filtrado) } = { datas[1], datas[2] }

\* C9 (as claimed): on the detailed page the view is the rows in the date
\* range with profit >= the threshold, and at the default threshold it is
\* every row in the date range
C9_LimiteOpcional ==
    NaDetalhada =>
        /\ df_filtrado = SelectSeq(df, LAMBDA r :
                             NoPeriodo(r, data_inicio, data_fim) /\ r.lucro >= limite_lucro)
        /\ limite_lucro = limite_padrao =>
              df_filtrado = SelectSeq(df, LAMBDA r : NoPeriodo(r, data_inicio, data_fim))

\* C10 (as claimed): with an empty view the script ends without an exception
\* and every aggregate is zero or NaN
ZeroOuNaN(x) == x.cls = "nan" \/ Igual(x, Zero)

C10_VazioSemErro ==
    df_filtrado = <<>> =>
        /\ status = "ok"
        /\ NaPrincipal =>
              /\ metricas.receita_total = 0
              /\ metricas.lucro_total = 0
              /\ ZeroOuNaN(metricas.margem_media)
        /\ NaDetalhada =>
              /\ ZeroOuNaN(metricas.margem_media)
              /\ metricas.produto_alvo = "nan"
              /\ metricas.dia_fraco = "nan"

====
